---- MODULE Spec2Model ----
(***************************************************************************)
(* A model of the oil-tank telemetry firmware:                             *)
(*   - WifiManager (src/wifi_manager.py): the timer-driven connection FSM, *)
(*     its scheduler hand-off, start()/stop() and the caller's writes;     *)
(*   - HexagonalPrismTank (src/volume_calculator.py): distance -> litres.  *)
(*                                                                         *)
(* The millisecond clock of utime.ticks_ms() is sampled in units of        *)
(* MsPerUnit milliseconds (one retry delay); clock values and              *)
(* last_action_ms are held in these units and the guards of the code       *)
(* compare ticks_diff(...) * MsPerUnit with the code's millisecond         *)
(* thresholds.  The clock wraps at TicksPeriod units, as ticks_ms() wraps  *)
(* at its period, and ticks_diff is the signed wrapped difference.         *)
(***************************************************************************)
EXTENDS Integers, Sequences, FiniteSets, TLC

(* ---------------------------------------------------------------------- *)
(* Configuration and bounds                                                *)
(* ---------------------------------------------------------------------- *)

\* constructor arguments of WifiManager, drawn small
max_retries == 2
max_error_count == 2
\* retry_delay: the default of the constructor, in seconds
retry_delay == 2
\* the rest of the Error state: `> 10000` ms
RestMs == 10000
\* milliseconds per clock unit of the model
MsPerUnit == retry_delay * 1000
\* the divisor of the Connecting blink: (tick_count // 5) % 2
BlinkDiv == 5
\* wrap-around period of the tick clock, in clock units (scaled down): the
\* smallest even period whose positive half holds a difference past the rest
TicksPeriod == 2 * ((RestMs \div MsPerUnit) + 2)
\* depth of the micropython.schedule queue
SchedDepth == 1
\* cap of error_count, which stop() lets grow past max_error_count
ErrCap == max_error_count + 1
\* tank dimensions are drawn from 1..MaxDim (cm)
MaxDim == 3
\* distances are drawn from -DistSlack .. tank_height + DistSlack (cm)
DistSlack == 3

TicksHalf == TicksPeriod \div 2
\* tick_count is only read through (tick_count // 5) % 2 and tick_count % 2
TickCycle == 2 * BlinkDiv
\* cap of the attempt history counter
AttemptsCap == max_retries * max_error_count + 1

STATE_DISCONNECTED == "disconnected"
STATE_CONNECTING == "connecting"
STATE_CONNECTED == "connected"
STATE_ERROR == "error"

FsmStates == {STATE_DISCONNECTED, STATE_CONNECTING, STATE_CONNECTED, STATE_ERROR}

\* what the WLAN driver reports: not associated, associated with address
\* 0.0.0.0, associated with an address
WlanStatus == {"down", "noip", "up"}

\* the driver calls of one step: none, disconnect() only, disconnect() and a
\* connect() that returned, disconnect() and a connect() that raised
WlanOps == {"none", "disconnect", "connect", "busy"}

VARIABLES
    state,              \* self._state
    enable_connection,  \* self.enable_connection
    is_connected,       \* self.is_connected
    connection_failed,  \* self.connection_failed
    attempt_count,      \* self._attempt_count
    error_count,        \* self._error_count
    last_action_ms,     \* self._last_action_ms
    tick_count,         \* self._tick_count, modulo TickCycle
    led,                \* the logical level last given to _set_led
    wlan,               \* the status of the WLAN station interface
    wlan_op,            \* driver calls made by the last tick or stop()
    timer_active,       \* self._fsm_timer is initialised and periodic
    sched,              \* _fsm_logic calls pending in micropython.schedule
    clock,              \* utime.ticks_ms()
    ever_enabled,       \* history: the caller has written enable_connection = True
    budget_attempts,    \* history: connect() calls that returned within the
                        \* current error budget (see the note below)
    tank,               \* the HexagonalPrismTank object
    distance,           \* the distance handed to to_liters
    volume,             \* the result of the last to_liters call, times VolScale
    tpc,                \* "new": no tank is constructed, "idle": distance is
                        \* not converted yet, "done": it is, "raised": the
                        \* conversion raised
    reading,            \* the distance level_sensor.read returned to measurment()
    liters,             \* what measurment() reports: <<>> is None, <<v>> is v
    in_flight,          \* executions of _fsm_logic that began and did not end
    has_connectivity,   \* self.has_connectivity
    probe,              \* the last check_internet call that the caller has not
                        \* read yet: its socket outcome and its return value
    dht,                \* the SensorDHT22 object and its last read() call
    sr,                 \* the BaseSR04.read call in progress: its locals
    app,                \* the main loop of main.py: its state variable, the
                        \* position inside connection() and what it returned
    mqtt                \* the MqttManager object and its last call

wifiVars == <<state, enable_connection, is_connected, connection_failed,
              attempt_count, error_count, last_action_ms, tick_count, led,
              wlan, wlan_op, timer_active, sched, clock, ever_enabled,
              budget_attempts>>

tankVars == <<tank, distance, volume, tpc, reading, liters>>

extVars == <<sr, app, mqtt>>

auxVars == <<in_flight, has_connectivity, probe, dht, extVars>>

vars == <<wifiVars, tankVars, auxVars>>

Min(a, b) == IF a <= b THEN a ELSE b

\* budget_attempts counts the association attempts of one error budget: it
\* is incremented where wlan.connect() returns, and starts again from 0 when
\* a connection procedure starts with error_count = 0, when the code zeroes
\* error_count on a success or a withdrawal, and when stop() interrupts.

(* ---------------------------------------------------------------------- *)
(* WifiManager                                                             *)
(* ---------------------------------------------------------------------- *)

\* utime.ticks_diff: the signed difference of two wrapped clock values
ticks_diff(a, b) ==
    ((a - b + TicksHalf + TicksPeriod) % TicksPeriod) - TicksHalf

\* wlan.isconnected()
isconnected(w) == w # "down"

has_address_any(w) == TRUE

\* wlan.ifconfig()[0] != '0.0.0.0'
has_address(w) == w = "up"

\* no check_internet call is waiting to be read by its caller
NoProbe == [socket |-> "none", ret |-> FALSE, called |-> FALSE]

\* WifiManager.__init__
WifiInit ==
    /\ state = STATE_DISCONNECTED
    /\ enable_connection = FALSE
    /\ is_connected = FALSE
    /\ connection_failed = FALSE
    /\ attempt_count = 0
    /\ error_count = 0
    /\ last_action_ms = 0
    /\ tick_count = 0
    /\ led = FALSE
    /\ wlan \in WlanStatus
    /\ wlan_op = "none"
    /\ timer_active = FALSE
    /\ sched = 0
    /\ clock \in 0..(TicksPeriod - 1)
    /\ ever_enabled = FALSE
    /\ budget_attempts = 0
    /\ in_flight = 0
    /\ has_connectivity = FALSE
    /\ probe = NoProbe

start_requested_always == TRUE

\* `if self.enable_connection:` of the Disconnected branch
start_requested == enable_connection

\* STATE_DISCONNECTED branch of _fsm_logic
FsmDisconnected ==
    /\ state = STATE_DISCONNECTED
    /\ wlan' = "down"
    /\ wlan_op' = "disconnect"
    /\ led' = TRUE
    /\ IF start_requested
       THEN /\ attempt_count' = 0
            /\ connection_failed' = FALSE
            /\ state' = STATE_CONNECTING
            /\ last_action_ms' = 0
            /\ budget_attempts' = IF error_count = 0 THEN 0 ELSE budget_attempts
       ELSE UNCHANGED <<attempt_count, connection_failed, state,
                        last_action_ms, budget_attempts>>
    /\ UNCHANGED <<enable_connection, is_connected, error_count>>

\* the Connecting blink: (self._tick_count // 5) % 2 == 0, after the increment
slow_blink == (((tick_count + 1) % TickCycle) \div BlinkDiv) % 2 = 0

fast_blink_every_fifth == slow_blink

\* the Error blink: self._tick_count % 2 == 0, after the increment
fast_blink == ((tick_count + 1) % TickCycle) % 2 = 0

\* `not self.wlan.isconnected() and ticks_diff(now, last) > retry_delay * 1000`
retry_due ==
    /\ ~isconnected(wlan)
    /\ ticks_diff(clock, last_action_ms) * MsPerUnit > retry_delay * 1000

attempts_left_inclusive == attempt_count <= max_retries

\* `if self._attempt_count < self._max_retries:`
attempts_left == attempt_count < max_retries

Attempt_busy_waits(rc) ==
    /\ wlan' = "down"
    /\ led' = slow_blink
    /\ IF rc = "ok"
       THEN /\ wlan_op' = "connect"
            /\ attempt_count' = attempt_count + 1
            /\ last_action_ms' = clock
            /\ budget_attempts' = Min(budget_attempts + 1, AttemptsCap)
       ELSE /\ wlan_op' = "busy"
            /\ last_action_ms' = clock
            /\ UNCHANGED <<attempt_count, budget_attempts>>
    /\ UNCHANGED <<state, error_count, is_connected>>

\* one association attempt: disconnect(), then connect(), which returns
\* (rc = "ok") or raises (rc = "busy")
Attempt(rc) ==
    /\ wlan' = "down"
    /\ led' = slow_blink
    /\ IF rc = "ok"
       THEN /\ wlan_op' = "connect"
            /\ attempt_count' = attempt_count + 1
            /\ last_action_ms' = clock
            /\ budget_attempts' = Min(budget_attempts + 1, AttemptsCap)
       ELSE /\ wlan_op' = "busy"
            /\ UNCHANGED <<attempt_count, last_action_ms, budget_attempts>>
    /\ UNCHANGED <<state, error_count, is_connected>>

AttemptsDisabled_keeps_errors ==
    /\ state' = STATE_DISCONNECTED
    /\ last_action_ms' = clock
    /\ wlan_op' = "none"
    /\ led' = slow_blink
    /\ UNCHANGED <<wlan, attempt_count, is_connected, error_count,
                   budget_attempts>>

\* the retries are used up and the caller has withdrawn the request
AttemptsDisabled ==
    /\ error_count' = 0
    /\ state' = STATE_DISCONNECTED
    /\ last_action_ms' = clock
    /\ wlan_op' = "none"
    /\ led' = slow_blink
    /\ budget_attempts' = 0
    /\ UNCHANGED <<wlan, attempt_count, is_connected>>

\* the retries are used up: "Total failure"
TotalFailure ==
    /\ error_count < ErrCap
    /\ error_count' = error_count + 1
    /\ state' = STATE_ERROR
    /\ last_action_ms' = clock
    /\ wlan_op' = "none"
    /\ led' = slow_blink
    /\ UNCHANGED <<wlan, attempt_count, is_connected, budget_attempts>>

Success_keeps_error_count ==
    /\ is_connected' = TRUE
    /\ state' = STATE_CONNECTED
    /\ led' = TRUE
    /\ wlan_op' = "none"
    /\ budget_attempts' = 0
    /\ UNCHANGED <<wlan, attempt_count, last_action_ms, error_count>>

\* the success check of the Connecting branch, taken
Success ==
    /\ is_connected' = TRUE
    /\ error_count' = 0
    /\ state' = STATE_CONNECTED
    /\ led' = TRUE
    /\ wlan_op' = "none"
    /\ budget_attempts' = 0
    /\ UNCHANGED <<wlan, attempt_count, last_action_ms>>

\* a Connecting tick that only blinks
Waiting ==
    /\ led' = slow_blink
    /\ wlan_op' = "none"
    /\ UNCHANGED <<is_connected, error_count, state, wlan, attempt_count,
                   last_action_ms, budget_attempts>>

\* STATE_CONNECTING branch of _fsm_logic; rc is the outcome of wlan.connect.
\* After an attempt, or when the retries are used up, the interface is not
\* associated, so the success check that follows fails.
FsmConnecting(rc) ==
    /\ state = STATE_CONNECTING
    /\ IF retry_due
       THEN IF attempts_left
            THEN Attempt(rc)
            ELSE /\ rc = "ok"
                 /\ IF ~enable_connection THEN AttemptsDisabled
                                          ELSE TotalFailure
       ELSE /\ rc = "ok"
            /\ IF isconnected(wlan) /\ has_address(wlan) THEN Success
                                                         ELSE Waiting
    /\ UNCHANGED <<enable_connection, connection_failed>>

LinkLost_counts_error ==
    /\ is_connected' = FALSE
    /\ state' = STATE_DISCONNECTED
    /\ error_count' = Min(error_count + 1, ErrCap)
    /\ UNCHANGED budget_attempts

\* "Link lost!"
LinkLost ==
    /\ is_connected' = FALSE
    /\ state' = STATE_DISCONNECTED
    /\ UNCHANGED <<error_count, budget_attempts>>

\* "Connection disabled." while connected
ConnectedDisabled ==
    /\ error_count' = 0
    /\ budget_attempts' = 0
    /\ state' = STATE_DISCONNECTED
    /\ UNCHANGED is_connected

\* STATE_CONNECTED branch of _fsm_logic
FsmConnected ==
    /\ state = STATE_CONNECTED
    /\ led' = FALSE
    /\ wlan_op' = "none"
    /\ IF ~isconnected(wlan)
       THEN LinkLost
       ELSE IF ~enable_connection
            THEN ConnectedDisabled
            ELSE UNCHANGED <<error_count, state, is_connected,
                             budget_attempts>>
    /\ UNCHANGED <<enable_connection, connection_failed, attempt_count,
                   last_action_ms, wlan>>

budget_exhausted_late == error_count > max_error_count

\* `if self._error_count >= self._max_error_count:`
budget_exhausted == error_count >= max_error_count

\* `ticks_diff(now, self._last_action_ms) > 10000`
rest_over == ticks_diff(clock, last_action_ms) * MsPerUnit > RestMs

\* STATE_ERROR branch of _fsm_logic
FsmError ==
    /\ state = STATE_ERROR
    /\ led' = fast_blink
    /\ wlan_op' = "none"
    /\ LET enable1 == IF budget_exhausted THEN FALSE ELSE enable_connection
           count1 == IF budget_exhausted THEN 0 ELSE error_count
       IN  /\ enable_connection' = enable1
           /\ connection_failed' = (budget_exhausted \/ connection_failed)
           /\ IF rest_over
              THEN /\ state' = STATE_DISCONNECTED
                   /\ error_count' = count1
              ELSE IF ~enable1
                   THEN /\ error_count' = 0
                        /\ state' = STATE_DISCONNECTED
                   ELSE /\ error_count' = count1
                        /\ UNCHANGED state
           /\ budget_attempts' =
                  IF ~budget_exhausted /\ ~rest_over /\ ~enable_connection
                  THEN 0 ELSE budget_attempts
    /\ UNCHANGED <<is_connected, attempt_count, last_action_ms, wlan>>

\* _fsm_logic: one scheduled run of the FSM
fsm_logic(rc) ==
    /\ tick_count' = (tick_count + 1) % TickCycle
    /\ \/ FsmDisconnected /\ rc = "ok"
       \/ FsmConnecting(rc)
       \/ FsmConnected /\ rc = "ok"
       \/ FsmError /\ rc = "ok"

\* the scheduler runs one pending _fsm_logic call in the main context
RunTickWith(rc) ==
    /\ sched > 0
    /\ sched' = sched - 1
    /\ fsm_logic(rc)
    /\ UNCHANGED <<timer_active, clock, ever_enabled, tankVars, auxVars>>

RunTick == \E rc \in {"ok", "busy"} : RunTickWith(rc)

timer_callback_inline ==
    /\ timer_active
    /\ sched < SchedDepth
    /\ sched' = sched + 1
    /\ fsm_logic("ok")
    /\ UNCHANGED <<timer_active, clock, ever_enabled, tankVars, auxVars>>

\* _timer_callback: hands the tick to micropython.schedule; a full queue
\* raises inside the callback and the tick is dropped
timer_callback ==
    /\ timer_active
    /\ sched < SchedDepth
    /\ sched' = sched + 1
    /\ UNCHANGED <<state, enable_connection, is_connected, connection_failed,
                   attempt_count, error_count, last_action_ms, tick_count,
                   led, wlan, wlan_op, timer_active, clock, ever_enabled,
                   budget_attempts, tankVars, auxVars>>

\* WifiManager.start
start ==
    /\ ~timer_active
    /\ timer_active' = TRUE
    /\ UNCHANGED <<state, enable_connection, is_connected, connection_failed,
                   attempt_count, error_count, last_action_ms, tick_count,
                   led, wlan, wlan_op, sched, clock, ever_enabled,
                   budget_attempts, tankVars, auxVars>>

\* WifiManager.stop
stop ==
    /\ timer_active' = FALSE
    /\ wlan' = "down"
    /\ wlan_op' = "disconnect"
    /\ led' = FALSE
    /\ state' = STATE_DISCONNECTED
    /\ budget_attempts' = 0
    /\ UNCHANGED <<enable_connection, is_connected, connection_failed,
                   attempt_count, error_count, last_action_ms, tick_count,
                   sched, clock, ever_enabled, tankVars, auxVars>>

\* the caller writes wifi.enable_connection (connection(), go_sleep())
SetEnable(b) ==
    /\ enable_connection' = b
    /\ ever_enabled' = (ever_enabled \/ b)
    /\ UNCHANGED <<state, is_connected, connection_failed, attempt_count,
                   error_count, last_action_ms, tick_count, led, wlan,
                   wlan_op, timer_active, sched, clock, budget_attempts,
                   tankVars, auxVars>>

CallerEnable == SetEnable(TRUE)

CallerDisable == SetEnable(FALSE)

\* the network changes what the driver reports
NetEvent ==
    /\ \E w \in WlanStatus \ {wlan} : wlan' = w
    /\ UNCHANGED <<state, enable_connection, is_connected, connection_failed,
                   attempt_count, error_count, last_action_ms, tick_count,
                   led, wlan_op, timer_active, sched, clock, ever_enabled,
                   budget_attempts, tankVars, auxVars>>

\* utime.ticks_ms() advances and wraps
ClockAdvance ==
    /\ clock' = (clock + 1) % TicksPeriod
    /\ UNCHANGED <<state, enable_connection, is_connected, connection_failed,
                   attempt_count, error_count, last_action_ms, tick_count,
                   led, wlan, wlan_op, timer_active, sched, ever_enabled,
                   budget_attempts, tankVars, auxVars>>

\* the wifi attributes and driver state that a step may leave alone
fsmVars == <<state, enable_connection, is_connected, connection_failed,
             attempt_count, error_count, last_action_ms, led, wlan,
             budget_attempts>>

\* micropython.schedule: a scheduled function never preempts another
\* scheduled function, so a pending call starts only when none is running
scheduler_idle_unlocked == TRUE

scheduler_idle == in_flight = 0

\* the scheduler takes one pending _fsm_logic call off its queue and enters it
TickBegin ==
    /\ sched > 0
    /\ scheduler_idle
    /\ in_flight < 2
    /\ sched' = sched - 1
    /\ in_flight' = in_flight + 1
    /\ UNCHANGED <<fsmVars, tick_count, wlan_op, timer_active, clock,
                   ever_enabled, tankVars, has_connectivity, probe, dht, extVars>>

\* the _fsm_logic call that was entered runs to its end and returns
TickEnd ==
    /\ in_flight > 0
    /\ in_flight' = in_flight - 1
    /\ \E rc \in {"ok", "busy"} : fsm_logic(rc)
    /\ UNCHANGED <<sched, timer_active, clock, ever_enabled, tankVars,
                   has_connectivity, probe, dht, extVars>>

\* code of the main context runs between scheduled calls, not inside one
MainContext(A) == in_flight = 0 /\ A

\* the driver calls of _fsm_logic that may raise: wlan.disconnect,
\* _set_led, wlan.isconnected, wlan.ifconfig, and the _set_led(True) that
\* follows a success
TickFaults == {"disconnect", "led", "isconnected", "ifconfig", "led_success"}

\* STATE_DISCONNECTED branch, left by an exception
FaultDisconnected(f) ==
    /\ state = STATE_DISCONNECTED
    /\ \/ /\ f = "disconnect"
          /\ wlan_op' = "none"
          /\ UNCHANGED fsmVars
       \/ /\ f = "led"
          /\ wlan' = "down"
          /\ wlan_op' = "disconnect"
          /\ UNCHANGED <<state, enable_connection, is_connected,
                         connection_failed, attempt_count, error_count,
                         last_action_ms, led, budget_attempts>>

\* STATE_CONNECTING branch, left by an exception
FaultConnecting(f) ==
    /\ state = STATE_CONNECTING
    /\ wlan_op' = "none"
    /\ \/ /\ f = "led"
          /\ UNCHANGED fsmVars
       \/ /\ \/ f = "isconnected"
             \/ f = "disconnect" /\ retry_due /\ attempts_left
             \/ f = "ifconfig" /\ ~retry_due /\ isconnected(wlan)
          /\ led' = slow_blink
          /\ UNCHANGED <<state, enable_connection, is_connected,
                         connection_failed, attempt_count, error_count,
                         last_action_ms, wlan, budget_attempts>>
       \/ /\ f = "led_success"
          /\ ~retry_due /\ isconnected(wlan) /\ has_address(wlan)
          /\ is_connected' = TRUE
          /\ error_count' = 0
          /\ state' = STATE_CONNECTED
          /\ led' = slow_blink
          /\ budget_attempts' = 0
          /\ UNCHANGED <<enable_connection, connection_failed, attempt_count,
                         last_action_ms, wlan>>

\* STATE_CONNECTED branch, left by an exception
FaultConnected(f) ==
    /\ state = STATE_CONNECTED
    /\ wlan_op' = "none"
    /\ \/ /\ f = "led"
          /\ UNCHANGED fsmVars
       \/ /\ f = "isconnected"
          /\ led' = FALSE
          /\ UNCHANGED <<state, enable_connection, is_connected,
                         connection_failed, attempt_count, error_count,
                         last_action_ms, wlan, budget_attempts>>

\* STATE_ERROR branch, left by an exception
FaultError(f) ==
    /\ state = STATE_ERROR
    /\ wlan_op' = "none"
    /\ f = "led"
    /\ UNCHANGED fsmVars

except_kills_timer == timer_active' = FALSE

\* `except Exception as e:` of _fsm_logic: the handler prints and returns,
\* "we do NOT kill the timer"
except_exception == UNCHANGED timer_active

\* a scheduled run of _fsm_logic in which driver call f raises
FaultTick ==
    /\ sched > 0
    /\ sched' = sched - 1
    /\ tick_count' = (tick_count + 1) % TickCycle
    /\ \E f \in TickFaults :
          \/ FaultDisconnected(f)
          \/ FaultConnecting(f)
          \/ FaultConnected(f)
          \/ FaultError(f)
    /\ except_exception
    /\ UNCHANGED <<clock, ever_enabled, tankVars, in_flight,
                   has_connectivity, probe, dht, extVars>>

\* what the socket of check_internet can do: connect, or raise on a refusal
\* or on the timeout
ProbeOutcomes == {"ok", "refused", "timeout"}

link_known_always == TRUE

\* `if not self.is_connected: return False`
link_known == is_connected

\* WifiManager.check_internet; a socket connects only through an interface
\* that is associated and has an address
check_internet ==
    /\ ~probe.called
    /\ IF ~link_known
       THEN /\ probe' = [socket |-> "none", ret |-> FALSE, called |-> TRUE]
            /\ UNCHANGED has_connectivity
       ELSE \E o \in ProbeOutcomes :
                /\ o = "ok" => wlan = "up"
                /\ probe' = [socket |-> o, ret |-> (o = "ok"),
                             called |-> TRUE]
                /\ has_connectivity' = (o = "ok")
    /\ UNCHANGED <<wifiVars, tankVars, in_flight, dht, extVars>>

\* the caller of check_internet reads what it returned
CallerReadsProbe ==
    /\ probe.called
    /\ probe' = NoProbe
    /\ UNCHANGED <<wifiVars, tankVars, in_flight, has_connectivity, dht,
                   extVars>>

(* ---------------------------------------------------------------------- *)
(* HexagonalPrismTank                                                      *)
(* ---------------------------------------------------------------------- *)

\* Volumes are exact rationals: a volume of the code in litres is held as
\* the integer  litres * VolScale(t),  VolScale(t) = 2 * 1000 * h_trapeze,
\* which clears the divisions by 2, by 1000 and by h_trapeze of the code.
\* With h_trapeze = 0 the code divides by zero wherever it divides by
\* h_trapeze, and the scale is 2 * 1000.
h_scale(t) == IF t.h_trapeze = 0 THEN 1 ELSE t.h_trapeze

VolScale(t) == 2 * 1000 * h_scale(t)

\* _calc_trapeze_volume: ((side_a + side_b) / 2 * height * tank_length) / 1000
calc_trapeze_volume(t, side_a, side_b, height) ==
    (side_a + side_b) * height * t.tank_length * h_scale(t)

\* _calc_rectangle_volume: (side * height * tank_length) / 1000
calc_rectangle_volume(t, side, height) ==
    side * height * t.tank_length * 2 * h_scale(t)

\* HexagonalPrismTank.__init__
HexagonalPrismTank(tank_length, h_rectangle, h_trapeze, min_width, max_width) ==
    LET dims == [tank_length |-> tank_length, h_rectangle |-> h_rectangle,
                 h_trapeze |-> h_trapeze, min_width |-> min_width,
                 max_width |-> max_width]
    IN  [tank_length |-> tank_length,
         h_rectangle |-> h_rectangle,
         h_trapeze |-> h_trapeze,
         min_width |-> min_width,
         max_width |-> max_width,
         level_1 |-> h_trapeze,
         level_2 |-> h_trapeze + h_rectangle,
         tank_height |-> h_trapeze + h_rectangle + h_trapeze,
         trapeze_capacity |->
             calc_trapeze_volume(dims, min_width, max_width, h_trapeze),
         rectangle_capacity |->
             calc_rectangle_volume(dims, max_width, h_rectangle)]

\* the final clamp of to_liters: if volume < 0: volume = 0; the sign of the
\* volume is the sign of its scaled value times the sign of the scale
clamp_negative(t, v) == IF v * VolScale(t) < 0 THEN 0 ELSE v

lower_part_flat(t, current_level) ==
    current_level * t.tank_length * 2 * t.min_width * t.h_trapeze

\* the branch of to_liters for current_level <= level_1:
\*   surface = min_width + (max_width - min_width) / h_trapeze * current_level
\*   volume = (1/2 * (min_width + surface) * current_level * tank_length) / 1000
lower_part(t, current_level) ==
    current_level * t.tank_length *
        (2 * t.min_width * t.h_trapeze
            + (t.max_width - t.min_width) * current_level)

middle_part_absolute(t, current_level) ==
    t.trapeze_capacity
        + calc_rectangle_volume(t, t.max_width, current_level)

\* the branch for level_1 < current_level <= level_2
middle_part(t, current_level) ==
    t.trapeze_capacity
        + calc_rectangle_volume(t, t.max_width, current_level - t.level_1)

upper_part_alone(t, current_level) ==
    LET relative_level == current_level - t.level_2
    IN  relative_level * t.tank_length *
            (2 * t.max_width * t.h_trapeze
                + (t.min_width - t.max_width) * relative_level)

\* the branch for level_2 < current_level <= tank_height:
\*   surface = max_width + (min_width - max_width) / h_trapeze * relative_level
\*   volume = (1/2 * (max_width + surface) * relative_level * tank_length) / 1000
\*   volume = volume + trapeze_capacity + rectangle_capacity
upper_part(t, current_level) ==
    LET relative_level == current_level - t.level_2
    IN  relative_level * t.tank_length *
            (2 * t.max_width * t.h_trapeze
                + (t.min_width - t.max_width) * relative_level)
        + t.trapeze_capacity + t.rectangle_capacity

in_upper_unbounded(t, current_level) == current_level > t.level_2

\* `elif (current_level > self.level_2) & (current_level <= self.tank_height):`
in_upper(t, current_level) ==
    current_level > t.level_2 /\ current_level <= t.tank_height

\* HexagonalPrismTank.to_liters
to_liters(t, d) ==
    LET current_level == t.tank_height - d
        raw == IF current_level <= t.level_1
               THEN lower_part(t, current_level)
               ELSE IF current_level > t.level_1 /\ current_level <= t.level_2
               THEN middle_part(t, current_level)
               ELSE IF in_upper(t, current_level)
               THEN upper_part(t, current_level)
               ELSE 0
    IN  clamp_negative(t, raw)

\* the divisions by h_trapeze of the lower and the upper branch raise
\* ZeroDivisionError when h_trapeze = 0
to_liters_raises(t, d) ==
    LET current_level == t.tank_height - d
    IN  /\ t.h_trapeze = 0
        /\ \/ current_level <= t.level_1
           \/ /\ ~(current_level > t.level_1 /\ current_level <= t.level_2)
              /\ in_upper(t, current_level)

Dims == 1..MaxDim

\* the geometries of the model: every dimension positive
Geometries ==
    {HexagonalPrismTank(l, hr, ht, mn, mx) :
        l \in {1, MaxDim}, hr \in Dims, ht \in Dims, mn \in Dims, mx \in Dims}

Distances(t) == (0 - DistSlack)..(t.tank_height + DistSlack)

\* the tank of the firmware's main loop is constructed once
TankInit ==
    /\ tank = HexagonalPrismTank(1, 1, 1, 1, 1)
    /\ distance = 0
    /\ volume = 0
    /\ tpc = "idle"
    /\ reading = 0
    /\ liters = <<>>

\* tank.to_liters(distance)
Convert ==
    /\ tpc = "idle"
    /\ IF to_liters_raises(tank, distance)
       THEN /\ tpc' = "raised"
            /\ UNCHANGED volume
       ELSE /\ volume' = to_liters(tank, distance)
            /\ tpc' = "done"
    /\ UNCHANGED <<tank, distance, reading, liters, wifiVars, auxVars>>

\* the next distance reading arrives
Measure ==
    /\ tpc \in {"done", "raised"}
    /\ \E d \in Distances(tank) : distance' = d
    /\ tpc' = "idle"
    /\ UNCHANGED <<tank, volume, reading, liters, wifiVars, auxVars>>

\* what level_sensor.read returns: the median of samples that are >= 0
Readings(t) == 0..(t.tank_height + DistSlack)

\* measurment() of the main loop: a reading d of the level sensor comes
\* back, and the function hands  tank.tank_height - d  to to_liters; an
\* exception of the conversion is caught and None is reported
measurment ==
    /\ tpc # "new"
    /\ \E d \in Readings(tank) :
          /\ reading' = d
          /\ liters' = IF to_liters_raises(tank, tank.tank_height - d)
                        THEN <<>>
                        ELSE <<to_liters(tank, tank.tank_height - d)>>
    /\ UNCHANGED <<tank, distance, volume, tpc, wifiVars, auxVars>>

\* measurment() when a sensor read raises: (None, None, None)
measurment_fails ==
    /\ tpc # "new"
    /\ liters' = <<>>
    /\ UNCHANGED <<tank, distance, volume, tpc, reading, wifiVars, auxVars>>

\* constructor arguments of any sign
RawDims == (0 - 1)..MaxDim

\* HexagonalPrismTank(...) is called: __init__ stores whatever it is given
Construct ==
    /\ tpc = "new"
    /\ \E l \in RawDims, hr \in RawDims, ht \in RawDims,
          mn \in RawDims, mx \in {1, MaxDim} :
          tank' = HexagonalPrismTank(l, hr, ht, mn, mx)
    /\ tpc' = "idle"
    /\ UNCHANGED <<distance, volume, reading, liters, wifiVars, auxVars>>

(* ---------------------------------------------------------------------- *)
(* SensorDHT22                                                             *)
(* ---------------------------------------------------------------------- *)

\* SensorDHT22.MIN_INTERVAL, in milliseconds
MIN_INTERVAL == 2000

\* None
None == <<>>

\* what the DHT22 driver reports, in tenths of a degree and of a percent
DhtValues == {<<198>>, <<215>>}

\* no read() call is waiting to be read by its caller
NoRead == [called |-> FALSE, measured |-> FALSE, oserror |-> FALSE,
           raised |-> FALSE, value |-> None]

\* MIN_INTERVAL in clock units
MeasureGap == MIN_INTERVAL \div MsPerUnit

\* SensorDHT22.__init__ at clock reading now:
\* _last_read_time = ticks_ms() - MIN_INTERVAL.  since_measure is the time
\* since sensor.measure() was last started on the hardware, in clock units
\* and counted up to MeasureGap only; no measurement has been started yet.
SensorDHT22(now) ==
    [temperature |-> None,
     humidity |-> None,
     last_read_time |-> (now - MeasureGap + TicksPeriod) % TicksPeriod,
     since_measure |-> MeasureGap,
     result |-> NoRead]

\* no temperature sensor has been constructed: temp_sensor is None
SensorInit == dht = None

\* temp_sensor = SensorDHT22(pin, internal_pullup)
SensorConstruct ==
    /\ dht = None
    /\ dht' = SensorDHT22(clock)
    /\ UNCHANGED <<wifiVars, tankVars, in_flight, has_connectivity, probe,
                   extVars>>

\* `if ticks_diff(now, self._last_read_time) < self.MIN_INTERVAL:`
too_early ==
    ticks_diff(clock, dht.last_read_time) * MsPerUnit < MIN_INTERVAL

\* round(x, 1) raises TypeError when x is None
round_raises(x) == x = None

\* round(x, 1) of a driver value, which is a whole number of tenths
round_1(x) == x

\* `finally: return round(self.temperature, 1), round(self.humidity, 1)`
finally_returns(t, h) == <<round_1(t), round_1(h)>>

\* SensorDHT22.read; ok says whether sensor.measure() returned, t and h are
\* what the driver then reports
read(ok, t, h) ==
    /\ dht # None
    /\ ~dht.result.called
    /\ IF too_early
       THEN dht' = [dht EXCEPT !.result =
                        [called |-> TRUE, measured |-> FALSE,
                         oserror |-> FALSE, raised |-> FALSE,
                         value |-> <<dht.temperature, dht.humidity>>]]
       ELSE LET t1 == IF ok THEN t ELSE dht.temperature
                h1 == IF ok THEN h ELSE dht.humidity
                last1 == IF ok THEN clock ELSE dht.last_read_time
                fails == round_raises(t1) \/ round_raises(h1)
            IN  dht' = [temperature |-> t1,
                        humidity |-> h1,
                        last_read_time |-> last1,
                        since_measure |-> 0,
                        result |->
                            [called |-> TRUE, measured |-> TRUE,
                             oserror |-> ~ok, raised |-> fails,
                             value |-> IF fails THEN None
                                       ELSE finally_returns(t1, h1)]]
    /\ UNCHANGED <<wifiVars, tankVars, in_flight, has_connectivity, probe,
                   extVars>>

\* temp_sensor.read() is called, and the sensor answers or does not
SensorRead ==
    \E ok \in BOOLEAN, t \in DhtValues, h \in DhtValues : read(ok, t, h)

\* the caller of read() takes what it returned
CallerReadsSensor ==
    /\ dht # None
    /\ dht.result.called
    /\ dht' = [dht EXCEPT !.result = NoRead]
    /\ UNCHANGED <<wifiVars, tankVars, in_flight, has_connectivity, probe,
                   extVars>>

\* utime.ticks_ms() advances and wraps while a temperature sensor exists:
\* the time since its last measurement grows with it
SensorClockAdvance ==
    /\ clock' = (clock + 1) % TicksPeriod
    /\ dht' = IF dht = None THEN dht
              ELSE [dht EXCEPT !.since_measure = Min(@ + 1, MeasureGap)]
    /\ UNCHANGED <<state, enable_connection, is_connected, connection_failed,
                   attempt_count, error_count, last_action_ms, tick_count,
                   led, wlan, wlan_op, timer_active, sched, ever_enabled,
                   budget_attempts, tankVars, in_flight, has_connectivity,
                   probe, extVars>>

(* ---------------------------------------------------------------------- *)
(* BaseSR04.read                                                           *)
(* ---------------------------------------------------------------------- *)

\* the largest `samples` argument
MaxSamples == 2

\* what read_once returns, in hundredths of a centimetre: -100 is the -1.0
\* of a timeout, -4 an echo inside the blind zone; the others are multiples
\* of 0.02 cm, so that round(., 2) of a mean of two is exact
SrDistances == {0 - 100, 0 - 4, 0, 2, 6}

\* the wifi and sensor state that BaseSR04.read leaves alone
srFrame == <<wifiVars, tankVars, in_flight, has_connectivity, probe, dht,
             app, mqtt>>

\* no read() call is in progress
SrIdle == [pc |-> "idle", samples |-> 0, distances |-> <<>>, attempts |-> 0,
           seen |-> <<>>, ret |-> None]

max_attempts_tripled(samples) == samples * 3

\* `max_attempts = samples * 2`
max_attempts(samples) == samples * 2

\* `while len(distances) < samples and attempts < max_attempts:`
loop_continues ==
    /\ Len(sr.distances) < sr.samples
    /\ sr.attempts < max_attempts(sr.samples)

\* list.sort(): the sequence q with x inserted at its place
RECURSIVE Insert(_, _)
Insert(q, x) ==
    IF q = <<>> THEN <<x>>
    ELSE IF x <= Head(q) THEN <<x>> \o q
         ELSE <<Head(q)>> \o Insert(Tail(q), x)

RECURSIVE Sorted(_)
Sorted(q) == IF q = <<>> THEN <<>> ELSE Insert(Sorted(Tail(q)), Head(q))

\* the value read() returns for a non-empty list of distances; the mean of
\* two multiples of 0.02 is a whole number of hundredths
median(ds) ==
    LET d == Sorted(ds)
        n == Len(d)
        mid == n \div 2
    IN  IF n % 2 = 1 THEN d[mid + 1]
        ELSE (d[mid] + d[mid + 1]) \div 2

\* level_sensor.read(samples=...) is called
SrCall ==
    /\ sr.pc = "idle"
    /\ \E n \in 0..MaxSamples :
           sr' = [SrIdle EXCEPT !.pc = "loop", !.samples = n]
    /\ UNCHANGED srFrame

\* one turn of the while loop: read_once returns d
SrMeasure(d) ==
    /\ sr.pc = "loop"
    /\ loop_continues
    /\ sr' = [sr EXCEPT
                 !.distances = IF d >= 0 THEN Append(@, d) ELSE @,
                 !.attempts = @ + 1,
                 !.seen = Append(@, d)]
    /\ UNCHANGED srFrame

SrLoop == \E d \in SrDistances : SrMeasure(d)

\* after the loop: RuntimeError, or the median
SrFinish ==
    /\ sr.pc = "loop"
    /\ ~loop_continues
    /\ IF sr.distances = <<>>
       THEN sr' = [sr EXCEPT !.pc = "raised"]
       ELSE sr' = [sr EXCEPT !.pc = "returned",
                             !.ret = <<median(sr.distances)>>]
    /\ UNCHANGED srFrame

\* the caller of read() takes the value or catches the exception
SrCallerTakes ==
    /\ sr.pc \in {"returned", "raised"}
    /\ sr' = SrIdle
    /\ UNCHANGED srFrame

(* ---------------------------------------------------------------------- *)
(* The main loop of main.py                                                *)
(* ---------------------------------------------------------------------- *)

AppStates == {"INIT", "MEASURE", "CONNECT", "FLUSH_DATA", "SAVE_DATA",
              "SEND_DATA", "SLEEP"}

\* main.py before its loop has left INIT.  pc is the position of the main
\* context: "loop" at the top of the while loop, "l90" and "l93" inside
\* connection(), before the read of is_connected and of connection_failed.
\* unseen_failure records that connection_failed was set while the loop was
\* in CONNECT and no connection() call has returned False since.
AppInit == [state |-> "INIT", pc |-> "loop", unseen_failure |-> FALSE]

\* what the main loop leaves alone apart from the three wifi attributes
appFrame == <<state, attempt_count, error_count, last_action_ms, tick_count,
              led, wlan, wlan_op, sched, clock, budget_attempts, tankVars,
              in_flight, has_connectivity, probe, dht, sr, mqtt>>

\* INIT: init_components() constructs the objects and calls wifi.start()
AppInitComponents ==
    /\ app.state = "INIT" /\ app.pc = "loop"
    /\ timer_active' = TRUE
    /\ app' = [app EXCEPT !.state = "MEASURE"]
    /\ UNCHANGED <<appFrame, enable_connection, is_connected,
                   connection_failed, ever_enabled>>

\* MEASURE: measurment() returned three values (ok) or a None among them
AppMeasure ==
    /\ app.state = "MEASURE" /\ app.pc = "loop"
    /\ \E ok \in BOOLEAN :
           app' = [app EXCEPT !.state = IF ok THEN "CONNECT" ELSE "MEASURE"]
    /\ UNCHANGED <<appFrame, timer_active, enable_connection, is_connected,
                   connection_failed, ever_enabled>>

\* connection(), first statement:  wifi.enable_connection = True
connection_l89 ==
    /\ app.state = "CONNECT" /\ app.pc = "loop"
    /\ enable_connection' = TRUE
    /\ ever_enabled' = TRUE
    /\ app' = [app EXCEPT !.pc = "l90"]
    /\ UNCHANGED <<appFrame, timer_active, is_connected, connection_failed>>

\* connection():  `if wifi.is_connected: return True`, and the CONNECT
\* branch of the loop on True: update_rtc(), state = "FLUSH_DATA"
connection_l90 ==
    /\ app.state = "CONNECT" /\ app.pc = "l90"
    /\ IF is_connected
       THEN app' = [app EXCEPT !.state = "FLUSH_DATA", !.pc = "loop"]
       ELSE app' = [app EXCEPT !.pc = "l93"]
    /\ UNCHANGED <<appFrame, timer_active, enable_connection, is_connected,
                   connection_failed, ever_enabled>>

\* connection():  `elif wifi.connection_failed: return False`, else None,
\* and the CONNECT branch of the loop: state = "SAVE_DATA" on False
connection_l93 ==
    /\ app.state = "CONNECT" /\ app.pc = "l93"
    /\ IF connection_failed
       THEN app' = [state |-> "SAVE_DATA", pc |-> "loop",
                    unseen_failure |-> FALSE]
       ELSE app' = [app EXCEPT !.pc = "loop"]
    /\ UNCHANGED <<appFrame, timer_active, enable_connection, is_connected,
                   connection_failed, ever_enabled>>

\* FLUSH_DATA, SAVE_DATA and SEND_DATA: file and print work only
AppData ==
    /\ app.pc = "loop"
    /\ \/ app.state \in {"FLUSH_DATA", "SAVE_DATA"}
          /\ app' = [app EXCEPT !.state = "SEND_DATA"]
       \/ app.state = "SEND_DATA"
          /\ app' = [app EXCEPT !.state = "SLEEP"]
    /\ UNCHANGED <<appFrame, timer_active, enable_connection, is_connected,
                   connection_failed, ever_enabled>>

\* SLEEP: go_sleep() writes enable_connection = False and sleeps; scheduled
\* ticks run during the sleep, between this step and the next of the loop
go_sleep ==
    /\ app.state = "SLEEP" /\ app.pc = "loop"
    /\ enable_connection' = FALSE
    /\ app' = [app EXCEPT !.state = "MEASURE"]
    /\ UNCHANGED <<appFrame, timer_active, is_connected, connection_failed,
                   ever_enabled>>

\* a scheduled run of _fsm_logic between two statements of the main loop;
\* it is noted when the run sets connection_failed during CONNECT
AppRunTick ==
    /\ sched > 0
    /\ sched' = sched - 1
    /\ fsm_logic("ok")
    /\ app' = [app EXCEPT !.unseen_failure =
                   IF ~connection_failed /\ connection_failed'
                   THEN app.state = "CONNECT"
                   ELSE @]
    /\ UNCHANGED <<timer_active, clock, ever_enabled, tankVars, in_flight,
                   has_connectivity, probe, dht, sr, mqtt>>

(* ---------------------------------------------------------------------- *)
(* MqttManager                                                             *)
(* ---------------------------------------------------------------------- *)

\* the default of connect(retry=3), used by publish()
default_retry == 3

\* the MQTTClient objects the model lets one manager create
MaxClients == 4

\* what the manager's calls leave alone
mqttFrame == <<wifiVars, tankVars, in_flight, has_connectivity, probe, dht,
               sr, app>>

\* MqttManager.__init__:  self._client = None.  client is None or the
\* MQTTClient held: its number in order of creation and whether a publish
\* on it has raised.  made counts the clients created; op, retry, attempts,
\* fresh, ret and raised describe the last call: its name, its retry
\* argument, the _client.connect() calls it made, whether it opened the
\* broker connection it used, what it returned, whether it raised.
MqttInit == [client |-> None, made |-> 0, op |-> "none", retry |-> 0,
             attempts |-> 0, fresh |-> FALSE, ret |-> FALSE,
             raised |-> FALSE]

\* the for loop of connect(retry): the first k attempts raise; attempt
\* k + 1, if there is one, connects.  The result is the client held, the
\* number of attempts made and the value returned.
connect_loop(retry, k) ==
    IF k < retry
    THEN [client |-> [id |-> mqtt.made + k + 1, failed |-> FALSE],
          attempts |-> k + 1, ret |-> TRUE]
    ELSE [client |-> None, attempts |-> retry, ret |-> FALSE]

\* MqttManager.connect(retry), for each retry argument up to the default
\* and each number k of attempts that raise
mqtt_connect ==
    \E retry \in 0..default_retry, k \in 0..default_retry :
        /\ k <= retry
        /\ mqtt.made + retry <= MaxClients
        /\ LET r == connect_loop(retry, k)
           IN  mqtt' = [client |-> r.client,
                        made |-> mqtt.made + r.attempts,
                        op |-> "connect", retry |-> retry,
                        attempts |-> r.attempts, fresh |-> r.ret,
                        ret |-> r.ret, raised |-> FALSE]
        /\ UNCHANGED mqttFrame

\* MqttManager.publish: connect() when `self._client is None`, then
\* _client.publish, which returns (sent) or raises
publish ==
    \E k \in 0..default_retry, sent \in BOOLEAN :
        /\ mqtt.client = None \/ k = 0
        /\ mqtt.made + default_retry <= MaxClients
        /\ LET r == IF mqtt.client = None
                    THEN connect_loop(default_retry, k)
                    ELSE [client |-> mqtt.client, attempts |-> 0,
                          ret |-> TRUE]
           IN  mqtt' = [client |-> IF r.ret /\ ~sent
                                   THEN [r.client EXCEPT !.failed = TRUE]
                                   ELSE r.client,
                        made |-> mqtt.made + r.attempts,
                        op |-> "publish", retry |-> default_retry,
                        attempts |-> r.attempts,
                        fresh |-> mqtt.client = None /\ r.ret,
                        ret |-> r.ret /\ sent,
                        raised |-> FALSE]
        /\ UNCHANGED mqttFrame

\* MqttManager.disconnect
mqtt_disconnect ==
    /\ mqtt.client # None
    /\ mqtt' = [mqtt EXCEPT !.client = None, !.op = "disconnect",
                            !.attempts = 0, !.fresh = FALSE]
    /\ UNCHANGED mqttFrame

ExtInit == sr = SrIdle /\ app = AppInit /\ mqtt = MqttInit

(* ---------------------------------------------------------------------- *)
(* Specifications                                                          *)
(* ---------------------------------------------------------------------- *)

Init == WifiInit /\ TankInit /\ SensorInit /\ ExtInit

Next ==
    \/ RunTick
    \/ timer_callback
    \/ start
    \/ stop
    \/ CallerEnable
    \/ CallerDisable
    \/ NetEvent
    \/ ClockAdvance

Spec == Init /\ [][Next]_vars

\* the volume model on its own: any geometry, any sequence of distances
TankSpecInit ==
    /\ WifiInit
    /\ SensorInit
    /\ ExtInit
    /\ wlan = "down"
    /\ clock = 0
    /\ tank \in Geometries
    /\ distance \in Distances(tank)
    /\ volume = 0
    /\ tpc = "idle"
    /\ reading = 0
    /\ liters = <<>>

TankNext == Convert \/ Measure

TankSpec == TankSpecInit /\ [][TankNext]_vars

\* the measurement step of the main loop, for any geometry with positive
\* dimensions
MeasureInit == TankSpecInit /\ distance = 0

MeasureNext == measurment \/ measurment_fails

MeasureSpec == MeasureInit /\ [][MeasureNext]_vars

\* the volume model from its construction on, with any constructor arguments
RawTankInit ==
    /\ WifiInit
    /\ SensorInit
    /\ ExtInit
    /\ wlan = "down"
    /\ clock = 0
    /\ tank = <<>>
    /\ distance = 0
    /\ volume = 0
    /\ tpc = "new"
    /\ reading = 0
    /\ liters = <<>>

RawTankNext == Construct \/ Convert \/ Measure

RawTankSpec == RawTankInit /\ [][RawTankNext]_vars

TypeOK ==
    /\ state \in FsmStates
    /\ enable_connection \in BOOLEAN
    /\ is_connected \in BOOLEAN
    /\ connection_failed \in BOOLEAN
    /\ attempt_count \in 0..max_retries
    /\ error_count \in 0..ErrCap
    /\ last_action_ms \in 0..(TicksPeriod - 1)
    /\ tick_count \in 0..(TickCycle - 1)
    /\ led \in BOOLEAN
    /\ wlan \in WlanStatus
    /\ wlan_op \in WlanOps
    /\ timer_active \in BOOLEAN
    /\ sched \in 0..SchedDepth
    /\ clock \in 0..(TicksPeriod - 1)
    /\ ever_enabled \in BOOLEAN
    /\ budget_attempts \in 0..AttemptsCap
    /\ tpc \in {"new", "idle", "done", "raised"}
    /\ in_flight \in 0..2
    /\ has_connectivity \in BOOLEAN
    /\ probe \in [socket : ProbeOutcomes \cup {"none"}, ret : BOOLEAN,
                   called : BOOLEAN]
    /\ dht = None \/ dht.last_read_time \in 0..(TicksPeriod - 1)
    /\ sr.pc \in {"idle", "loop", "returned", "raised"}
    /\ app.pc \in {"loop", "l90", "l93"}
    /\ app.state \in AppStates
    /\ mqtt.op \in {"none", "connect", "publish", "disconnect"}
    /\ mqtt.made \in 0..MaxClients

(* ---------------------------------------------------------------------- *)
(* Scenario specifications                                                 *)
(* ---------------------------------------------------------------------- *)

\* the caller writes enable_connection = True once; it never writes it again
CallerEnableOnce == ~ever_enabled /\ SetEnable(TRUE)

\* a scheduled run of the FSM whose driver calls all return
RunTickOk == RunTickWith("ok")

\* a tick that makes an attempt or changes the FSM state
ProgressTick ==
    /\ RunTick
    /\ (state' # state \/ attempt_count' # attempt_count)

\* the clock is in the window in which the next tick acts on elapsed time
TimeDue ==
    \/ state = STATE_CONNECTING /\ retry_due
    \/ state = STATE_ERROR /\ rest_over

\* The periodic timer fires every 200 ms, many times within one clock unit,
\* and the scheduler runs each pending call: a started timer keeps firing,
\* a pending tick runs, the clock advances, and while the clock is in a
\* window in which a tick acts, the timer fires and the tick runs there.
TickFairness ==
    /\ WF_vars(start)
    /\ WF_vars(timer_callback)
    /\ WF_vars(RunTick)
    /\ WF_vars(ClockAdvance)
    /\ SF_vars(timer_callback /\ TimeDue)
    /\ SF_vars(ProgressTick)

\* every sequence of ticks, network events and caller writes, without stop()
RunNext ==
    \/ RunTick
    \/ timer_callback
    \/ start
    \/ CallerEnable
    \/ CallerDisable
    \/ NetEvent
    \/ ClockAdvance

RunSpec == Init /\ [][RunNext]_vars

\* the network never associates, no driver call raises, the caller enables
\* once and never stops the manager
NoNetInit == Init /\ wlan = "down"

NoNetNext ==
    \/ start
    \/ CallerEnableOnce
    \/ timer_callback
    \/ RunTickOk
    \/ ClockAdvance

NoNetSpec == NoNetInit /\ [][NoNetNext]_vars /\ TickFairness

\* the association makes progress on the network side: the interface
\* associates, with or without an address, or obtains its address
NetAssociate ==
    /\ \/ wlan = "down" /\ wlan' \in {"noip", "up"}
       \/ wlan = "noip" /\ wlan' = "up"
    /\ UNCHANGED <<state, enable_connection, is_connected, connection_failed,
                   attempt_count, error_count, last_action_ms, tick_count,
                   led, wlan_op, timer_active, sched, clock, ever_enabled,
                   budget_attempts, tankVars, auxVars>>

\* enable_connection is held true by the caller and the manager is never
\* stopped; the network may associate at any time and never drops the link,
\* and wlan.connect may raise
HeldNext ==
    \/ start
    \/ CallerEnableOnce
    \/ timer_callback
    \/ RunTick
    \/ NetAssociate
    \/ ClockAdvance

HeldSpec == Init /\ [][HeldNext]_vars /\ TickFairness

\* a run of _fsm_logic is short against the clock unit: the clock reading
\* does not change inside one
ClockBetweenTicks == in_flight = 0 /\ ClockAdvance

\* the two-stage dispatch in full: a scheduled call is entered and left in
\* two steps; the timer interrupt and the network act at any time, the main
\* context only between scheduled calls
DispatchNext ==
    \/ MainContext(start)
    \/ MainContext(stop)
    \/ MainContext(CallerEnableOnce)
    \/ timer_callback
    \/ TickBegin
    \/ TickEnd
    \/ NetAssociate
    \/ ClockBetweenTicks

DispatchSpec == Init /\ [][DispatchNext]_vars

\* HeldSpec with driver calls that raise inside the tick
FaultNext ==
    \/ start
    \/ CallerEnableOnce
    \/ timer_callback
    \/ RunTick
    \/ FaultTick
    \/ NetAssociate
    \/ ClockAdvance

\* a started timer keeps firing and the scheduler runs each pending call,
\* whether a driver call raises in it or not
FaultFairness ==
    /\ WF_vars(start)
    /\ WF_vars(timer_callback)
    /\ WF_vars(RunTick \/ FaultTick)

FaultSpec == Init /\ [][FaultNext]_vars /\ FaultFairness

\* the manager with a caller that probes the internet, withdraws its request
\* and may stop the manager, within one clock unit
ProbeNext ==
    \/ start
    \/ stop
    \/ CallerEnable
    \/ CallerDisable
    \/ timer_callback
    \/ RunTickOk
    \/ NetEvent
    \/ check_internet
    \/ CallerReadsProbe

ProbeSpec == Init /\ [][ProbeNext]_vars

\* the main loop of main.py with the manager it starts: the timer fires,
\* scheduled ticks run between the statements of the loop, the network
\* changes and time passes
AppNext ==
    \/ AppInitComponents
    \/ AppMeasure
    \/ connection_l89
    \/ connection_l90
    \/ connection_l93
    \/ AppData
    \/ go_sleep
    \/ timer_callback
    \/ AppRunTick
    \/ NetEvent
    \/ ClockAdvance

AppSpec == Init /\ [][AppNext]_vars

\* the sensors and the MqttManager are studied on their own, the Wi-Fi
\* interface down and the FSM never started
SensorSpecInit == Init /\ wlan = "down"

\* the MqttManager on its own, with a caller that connects, publishes and
\* disconnects in any order
MqttNext == mqtt_connect \/ publish \/ mqtt_disconnect

MqttSpec == SensorSpecInit /\ [][MqttNext]_vars

\* BaseSR04.read on its own; between two sleep_ms(delay) the next
\* measurement is made, and the loop is left when its condition fails
SrNext == SrCall \/ SrLoop \/ SrFinish \/ SrCallerTakes

SrFairness == WF_vars(SrLoop) /\ WF_vars(SrFinish)

SrSpec == SensorSpecInit /\ [][SrNext]_vars /\ SrFairness

\* the temperature and humidity sensor on its own
SensorNext ==
    \/ SensorConstruct
    \/ SensorRead
    \/ CallerReadsSensor
    \/ SensorClockAdvance

SensorSpec == SensorSpecInit /\ [][SensorNext]_vars

(* ---------------------------------------------------------------------- *)
(* Claims                                                                  *)
(* ---------------------------------------------------------------------- *)

\* a step that runs _fsm_logic: only the scheduler takes a call off the queue
TickStep == sched' = sched - 1

\* a step of stop() on a running manager: only stop() de-initialises the timer
StopStep == timer_active /\ ~timer_active'

\* a tick that called wlan.connect (whether it returned or raised)
AttemptStep == TickStep /\ wlan_op' \in {"connect", "busy"}

\* C1: stop(), called in any FSM state, leaves state = Disconnected and
\* is_connected = false when it returns.
C1_StopForcesDisconnected ==
    [][StopStep => (state' = STATE_DISCONNECTED /\ is_connected' = FALSE)]_vars

\* C2: after every completed tick, is_connected is true if and only if
\* state is Connected.
C2_IsConnectedIffConnected ==
    [][TickStep => (is_connected' <=> state' = STATE_CONNECTED)]_vars

\* C3: with enable_connection set once, a network that never associates and
\* no driver error, each cycle makes exactly max_retries attempts before
\* Error, connection_failed is set with enable_connection cleared after
\* exactly max_retries * max_error_count attempts and not before, and the
\* machine does get there.
C3_Safety ==
    /\ budget_attempts <= max_retries * max_error_count
    /\ attempt_count <= max_retries
    /\ state = STATE_ERROR =>
           /\ attempt_count = max_retries
           /\ error_count \in 1..max_error_count
           /\ budget_attempts = error_count * max_retries
    /\ state = STATE_CONNECTING =>
           budget_attempts = error_count * max_retries + attempt_count
    /\ connection_failed =>
           /\ budget_attempts = max_retries * max_error_count
           /\ ~enable_connection
           /\ state = STATE_DISCONNECTED
    /\ (ever_enabled /\ ~connection_failed) => enable_connection

C3_ErrorBudget ==
    /\ []C3_Safety
    /\ (ever_enabled ~> connection_failed)

C3_Witness ==
    /\ connection_failed
    /\ ~enable_connection
    /\ ever_enabled
    /\ budget_attempts = max_retries * max_error_count

\* C4: once connection_failed is set it stays set, and no tick calls
\* wlan.connect, for as long as enable_connection stays false (only the
\* caller ever writes it true).
C4_FailureSticky ==
    [][(connection_failed /\ ~enable_connection /\ ~enable_connection')
          => (connection_failed' /\ ~AttemptStep)]_vars

\* a Disconnected tick has run after the failure was declared
C4_Witness ==
    /\ connection_failed
    /\ ~enable_connection
    /\ state = STATE_DISCONNECTED
    /\ wlan_op = "disconnect"
    /\ led

\* C5: a tick in Connecting, after the k-th attempt (1 <= k <= max_retries),
\* that finds the network associated with an address moves to Connected
\* with is_connected = true and error_count = 0 and makes no attempt.
C5_SuccessAfterAttempt ==
    [][(TickStep /\ state = STATE_CONNECTING /\ attempt_count >= 1
            /\ wlan = "up")
          => (/\ state' = STATE_CONNECTED
              /\ is_connected'
              /\ error_count' = 0
              /\ wlan_op' = "none"
              /\ attempt_count' = attempt_count)]_vars

C5_Witness ==
    /\ state = STATE_CONNECTED
    /\ is_connected
    /\ attempt_count = max_retries
    /\ error_count = 0
    /\ budget_attempts = 0
    /\ led

\* C6: a tick in Connected that finds the association lost moves to
\* Disconnected with is_connected = false and changes neither error_count
\* nor connection_failed, whatever enable_connection is.
C6_LinkLoss ==
    [][(TickStep /\ state = STATE_CONNECTED /\ wlan = "down")
          => (/\ state' = STATE_DISCONNECTED
              /\ ~is_connected'
              /\ error_count' = error_count
              /\ connection_failed' = connection_failed
              /\ enable_connection' = enable_connection)]_vars

\* the state right after the link-loss tick: the caller still asks for the
\* connection, an attempt had been made, the Connected branch set the LED
C6_Witness ==
    /\ state = STATE_DISCONNECTED
    /\ ~is_connected
    /\ enable_connection
    /\ attempt_count >= 1
    /\ error_count = 0
    /\ wlan = "down"
    /\ wlan_op = "none"
    /\ ~led

\* C7: as long as the caller has never enabled the connection, the machine
\* is in Disconnected with is_connected and connection_failed false and no
\* association attempt made, however many ticks ran and whatever the
\* network reports.
C7_IdleWhileDisabled ==
    ~ever_enabled =>
        /\ state = STATE_DISCONNECTED
        /\ ~enable_connection
        /\ ~is_connected
        /\ ~connection_failed
        /\ attempt_count = 0
        /\ wlan_op \in {"none", "disconnect"}

C7_Witness ==
    /\ ~ever_enabled
    /\ tick_count = TickCycle - 1
    /\ wlan = "up"
    /\ state = STATE_DISCONNECTED

\* C8: while the timer is de-initialised (after stop() and until start())
\* no FSM tick logic executes.
C8_NoTickAfterStop ==
    [][~timer_active => ~TickStep]_vars

\* C9: under fair ticking and an advancing clock, with enable_connection
\* held true, every stay in Connecting ends.
C9_ConnectingEnds ==
    (state = STATE_CONNECTING) ~> (state # STATE_CONNECTING)

\* C10: a distance below 0 (fill level above the tank height) converts to
\* exactly 0 litres.
C10_AboveTopIsZero ==
    (tpc = "done" /\ tank.tank_height - distance > tank.tank_height)
        => volume = 0

C10_Witness ==
    /\ tpc = "done"
    /\ distance < 0
    /\ volume = 0
    /\ tank.min_width < tank.max_width

\* the fill level of the converted distance
fill_level == tank.tank_height - distance

\* C11: a distance beyond the tank height (fill level below 0, however far)
\* converts to exactly 0 litres.
C11_BelowBottomIsZero ==
    (tpc = "done" /\ fill_level < 0) => volume = 0

\* the area under the linear width profile of segment A from 0 to f, times
\* the tank length, in litres (times VolScale)
segment_a_closed_form(t, f) ==
    t.tank_length *
        (2 * t.h_trapeze * t.min_width * f
            + (t.max_width - t.min_width) * f * f)

\* C12: the conversion takes the boundary values exactly: 0 at fill level 0,
\* the lower capacity at level_1, lower + middle capacity at level_2, lower
\* + middle + the upper trapezoid at the tank height, and the closed-form
\* trapezoid volume of segment A between 0 and level_1.
C12_BoundaryValues ==
    tpc = "done" =>
        /\ fill_level = 0 => volume = 0
        /\ fill_level = tank.level_1 => volume = tank.trapeze_capacity
        /\ fill_level = tank.level_2 =>
               volume = tank.trapeze_capacity + tank.rectangle_capacity
        /\ fill_level = tank.tank_height =>
               volume = tank.trapeze_capacity + tank.rectangle_capacity
                    + calc_trapeze_volume(tank, tank.max_width,
                                          tank.min_width, tank.h_trapeze)
        /\ (0 <= fill_level /\ fill_level <= tank.level_1) =>
               volume = segment_a_closed_form(tank, fill_level)

\* a full tank whose three segments all differ was converted
C12_Witness ==
    /\ tpc = "done"
    /\ distance = 0
    /\ tank.min_width < tank.max_width
    /\ tank.h_rectangle > 1
    /\ tank.h_trapeze > 1
    /\ volume = 2 * tank.trapeze_capacity + tank.rectangle_capacity

\* C13: for a valid geometry the conversion is non-decreasing in the fill
\* level over 0..tank_height: no higher fill level inside the tank converts
\* to less than the converted one, and no lower one to more.
C13_Monotone ==
    (/\ tpc = "done"
     /\ tank.min_width <= tank.max_width
     /\ 0 <= fill_level
     /\ fill_level <= tank.tank_height)
        => \A f \in 0..tank.tank_height :
               /\ f >= fill_level =>
                      to_liters(tank, tank.tank_height - f) >= volume
               /\ f <= fill_level =>
                      to_liters(tank, tank.tank_height - f) <= volume

\* a fill level in the upper segment, strictly inside it, was converted
C13_Witness ==
    /\ tpc = "done"
    /\ tank.min_width < tank.max_width
    /\ fill_level > tank.level_2
    /\ fill_level < tank.tank_height
    /\ volume > tank.trapeze_capacity + tank.rectangle_capacity

\* C14: no jump at the segment boundaries: what the lower branch returns at
\* level_1 is what the middle formula gives at relative height 0, and what
\* the middle branch returns at level_2 is what the upper formula gives at
\* relative height 0.
C14_NoJump ==
    tpc = "done" =>
        /\ fill_level = tank.level_1 =>
               /\ volume = lower_part(tank, tank.level_1)
               /\ volume = middle_part(tank, tank.level_1)
        /\ fill_level = tank.level_2 =>
               /\ volume = middle_part(tank, tank.level_2)
               /\ volume = upper_part(tank, tank.level_2)

\* the boundary between the middle and the upper segment was converted
C14_Witness ==
    /\ tpc = "done"
    /\ fill_level = tank.level_2
    /\ tank.min_width < tank.max_width
    /\ tank.tank_length > 1
    /\ volume > 0

\* C15: every tank object that exists has strictly positive dimensions and
\* 0 < level_1 < level_2 < tank_height: the constructor rejects the rest.
C15_GeometryValidated ==
    tpc # "new" =>
        /\ tank.tank_length > 0
        /\ tank.h_rectangle > 0
        /\ tank.h_trapeze > 0
        /\ tank.min_width > 0
        /\ tank.max_width > 0
        /\ 0 < tank.level_1
        /\ tank.level_1 < tank.level_2
        /\ tank.level_2 < tank.tank_height

\* C16: the volume measurment() reports for a sensor reading d is
\* to_liters(d), the conversion of the measured distance.
C16_ReportsDistanceVolume ==
    liters # <<>> => liters = <<to_liters(tank, reading)>>

\* a step of _timer_callback: only the timer puts a call on the queue
TimerStep == sched' = sched + 1

\* C17: a firing of _timer_callback leaves state, is_connected,
\* connection_failed, enable_connection, attempt_count, error_count, the
\* LED and the network handle unchanged; it only queues the tick.
C17_TimerOnlySchedules ==
    [][TimerStep => UNCHANGED <<fsmVars, tick_count, wlan_op>>]_vars

\* the timer fired while the FSM was in the middle of a connection procedure
C17_Witness ==
    /\ sched >= 1
    /\ timer_active
    /\ state = STATE_CONNECTING
    /\ attempt_count >= 1
    /\ wlan_op = "connect"

\* a step in which an execution of _fsm_logic begins
BeginStep == in_flight' > in_flight

C19_FaultsContained ==
    /\ [](state \in FsmStates)
    /\ [][TickStep => timer_active' = timer_active]_vars
    /\ []<><<TickStep>>_vars

\* _set_led(True) raised in a Disconnected tick after wlan.disconnect(): the
\* tick returned with the LED not written and the enabled FSM not started
C19_Witness ==
    /\ wlan_op = "disconnect"
    /\ ~led
    /\ tick_count >= 1
    /\ state = STATE_DISCONNECTED
    /\ enable_connection
    /\ timer_active

\* a step of check_internet
ProbeStep == ~probe.called /\ probe'.called

\* C20: check_internet returns false without probing when is_connected is
\* false, false when the probe is refused or raises, true only when
\* is_connected is true and the probe succeeded; it returns in every case
\* and changes neither the FSM state, the counters, is_connected nor
\* connection_failed.
C20_CheckInternet ==
    [][ProbeStep =>
          /\ ~is_connected => (probe'.socket = "none" /\ ~probe'.ret)
          /\ probe'.socket \in {"refused", "timeout"} => ~probe'.ret
          /\ probe'.ret => (is_connected /\ probe'.socket = "ok")
          /\ UNCHANGED <<state, attempt_count, error_count, is_connected,
                         connection_failed, enable_connection,
                         last_action_ms, tick_count>>]_vars

\* a probe succeeded while connected, and its result waits for the caller
C20_Witness ==
    /\ probe.called
    /\ probe.ret
    /\ probe.socket = "ok"
    /\ has_connectivity
    /\ is_connected
    /\ state = STATE_CONNECTED

\* a step of SensorDHT22.read in which sensor.measure() raised OSError
FailedReadStep ==
    /\ dht # None
    /\ ~dht.result.called
    /\ dht'.result.called
    /\ dht'.result.oserror

\* C23: when the measurement fails, read() returns (None, None) and does
\* not raise, the first measurement after construction included.
C23_FailedReadReturnsNone ==
    [][FailedReadStep =>
          (~dht'.result.raised /\ dht'.result.value = <<None, None>>)]_vars

\* C21: in every reachable state 0 <= attempt_count <= max_retries, whatever
\* the ticks, driver errors, network events and caller writes.
C21_AttemptCountBounded == attempt_count >= 0 /\ attempt_count <= max_retries

\* the last allowed attempt has just been made, after ticks that waited or
\* whose wlan.connect raised
C21_Witness ==
    /\ state = STATE_CONNECTING
    /\ attempt_count = max_retries
    /\ wlan_op = "connect"
    /\ tick_count > max_retries + 1

\* C22: in every reachable state 0 <= error_count <= max_error_count,
\* whatever the ticks, network events and caller writes.
C22_ErrorCountBounded == error_count >= 0 /\ error_count <= max_error_count

\* the counter stands at its bound: the last cycle of the budget has just
\* failed and the machine is in Error with the request still set
C22_Witness ==
    /\ state = STATE_ERROR
    /\ error_count = max_error_count
    /\ enable_connection
    /\ budget_attempts = max_retries * max_error_count

\* the machine has just moved Disconnected -> Connecting: the last tick ran
\* the Disconnected branch, no Connecting tick has run yet
first_connecting_tick == state = STATE_CONNECTING /\ wlan_op = "disconnect"

\* C24: the first Connecting tick after Disconnected -> Connecting makes an
\* association attempt when the network is not associated, for every value
\* of the wrapping millisecond clock.
C24_FirstAttemptImmediate ==
    [][(TickStep /\ first_connecting_tick /\ ~isconnected(wlan))
          => AttemptStep]_vars

\* utime.ticks_diff(now, self._last_action_ms), in milliseconds
elapsed_since_last_action == ticks_diff(clock, last_action_ms) * MsPerUnit

\* C25: a Connecting tick that finds the network not associated, with
\* attempts left and at least retry_delay elapsed since the last attempt,
\* calls wlan.connect, and when the call returns attempt_count is one more
\* and the current time is recorded.
C25_RetryWhenDue ==
    [][(/\ TickStep
        /\ state = STATE_CONNECTING
        /\ ~isconnected(wlan)
        /\ attempt_count >= 1
        /\ attempts_left
        /\ elapsed_since_last_action >= retry_delay * 1000)
          => (/\ AttemptStep
              /\ wlan_op' = "connect" =>
                     (/\ attempt_count' = attempt_count + 1
                      /\ last_action_ms' = clock))]_vars

\* a tick whose wlan.connect raised
BusyStep == TickStep /\ wlan_op' = "busy"

\* C26: a tick whose association attempt raises a driver error leaves state
\* (Connecting), attempt_count, error_count, is_connected, connection_failed
\* and enable_connection unchanged, and the attempt is due again on the very
\* next tick: the time of the failed call is not recorded.
C26_BusyAttemptRetried ==
    [][BusyStep =>
          (/\ state = STATE_CONNECTING
           /\ UNCHANGED <<state, attempt_count, error_count, is_connected,
                          connection_failed, enable_connection,
                          last_action_ms>>
           /\ elapsed_since_last_action' > retry_delay * 1000
           /\ attempts_left')]_vars

\* a second attempt has just raised: the first one was counted, this one not
C26_Witness ==
    /\ wlan_op = "busy"
    /\ state = STATE_CONNECTING
    /\ attempt_count >= 1
    /\ attempts_left
    /\ retry_due

\* C27: the machine leaves Connecting for Error or for Disconnected only on
\* a tick with attempt_count >= max_retries: to Error, with error_count one
\* more, if enable_connection is true, and to Disconnected, with error_count
\* reset to 0, if it has been withdrawn; it never enters Error while
\* enable_connection is false.
C27_ConnectingGivesUp ==
    [][(state = STATE_CONNECTING
        /\ state' \in {STATE_ERROR, STATE_DISCONNECTED})
          => (/\ TickStep
              /\ attempt_count >= max_retries
              /\ UNCHANGED enable_connection
              /\ IF enable_connection
                 THEN state' = STATE_ERROR
                      /\ error_count' = error_count + 1
                 ELSE state' = STATE_DISCONNECTED
                      /\ error_count' = 0)]_vars

\* the retries were used up after the caller withdrew: the machine is back
\* in Disconnected at the time of that tick, counter at 0, network down
C27_Witness ==
    /\ state = STATE_DISCONNECTED
    /\ ~enable_connection
    /\ ~connection_failed
    /\ attempt_count = max_retries
    /\ error_count = 0
    /\ last_action_ms = clock
    /\ wlan_op = "none"
    /\ wlan = "down"
    /\ led = (((tick_count % TickCycle) \div BlinkDiv) % 2 = 0)

\* C28: state becomes Connected, and is_connected true, only on a tick in
\* Connecting that finds the network associated with an address other than
\* 0.0.0.0 (the driver status "up"); an associated network without an
\* address (status "noip") never yields Connected.
C28_ConnectedNeedsAddress ==
    [][((state # STATE_CONNECTED /\ state' = STATE_CONNECTED)
        \/ (~is_connected /\ is_connected'))
          => (/\ TickStep
              /\ state = STATE_CONNECTING
              /\ wlan = "up"
              /\ state' = STATE_CONNECTED
              /\ is_connected')]_vars

\* Connected was entered after the first attempt, on a tick later than the
\* one that followed the attempt
C28_Witness ==
    /\ state = STATE_CONNECTED
    /\ is_connected
    /\ wlan = "up"
    /\ attempt_count = 1
    /\ wlan_op = "none"
    /\ led
    /\ tick_count > 3

\* C29: the machine leaves Error only to Disconnected, on a tick, and only
\* when the rest window has elapsed since Error was entered or
\* enable_connection is false, and in that case error_count is reset to 0.
C29_ErrorExit ==
    [][(state = STATE_ERROR /\ state' # STATE_ERROR)
          => (/\ TickStep
              /\ state' = STATE_DISCONNECTED
              /\ rest_over \/ ~enable_connection'
              /\ ~enable_connection' => error_count' = 0)]_vars

\* C30: the LED level is a function of the FSM state and the tick counter
\* alone; in particular Connected shows one fixed level: in a run of the
\* manager the LED is on in every Connected state or off in every one.
C30_ConnectedLedFixed ==
    \/ [](state = STATE_CONNECTED => led)
    \/ [](state = STATE_CONNECTED => ~led)

\* C31: whenever a tick completes with the machine in Disconnected and not
\* enabled, the logical LED level is off and the network has been asked to
\* disassociate on that tick.
C31_IdleLedOff ==
    [][(TickStep /\ state' = STATE_DISCONNECTED /\ ~enable_connection')
          => (~led' /\ wlan_op' = "disconnect")]_vars

\* the level the Error branch writes at tick counter n
error_level(n) == n % 2 = 0

\* the level the Connecting blink writes at tick counter n
connecting_level(n) == (n \div BlinkDiv) % 2 = 0

\* C32: over consecutive ticks spent in Error the LED toggles on every
\* tick, and over consecutive ticks spent in Connecting it changes only when
\* the tick counter reaches a multiple of 5: the Error blink is the faster.
C32_BlinkCadence ==
    [][TickStep =>
          (/\ state = STATE_ERROR =>
                  (/\ led' = error_level(tick_count')
                   /\ led = error_level(tick_count) => led' # led)
           /\ (state = STATE_CONNECTING /\ state' = STATE_CONNECTING) =>
                  (/\ led' = connecting_level(tick_count')
                   /\ (led = connecting_level(tick_count) /\ led' # led)
                          => tick_count' % BlinkDiv = 0))]_vars

\* an Error tick has run: the LED is on at an even tick counter at which the
\* Connecting blink, which was showing when Error was entered, is off
C32_Witness ==
    /\ state = STATE_ERROR
    /\ led
    /\ error_level(tick_count)
    /\ ~connecting_level(tick_count)

\* a step of SensorDHT22.read that starts a measurement on the hardware
MeasureStep ==
    /\ dht # None
    /\ ~dht.result.called
    /\ dht'.result.called
    /\ dht'.result.measured

\* C33: two sensor.measure() calls are never started less than MIN_INTERVAL
\* apart, over any sequence of read() calls, calls that follow a failed
\* measurement included.
C33_MeasureSpacing ==
    [][MeasureStep => dht.since_measure * MsPerUnit >= MIN_INTERVAL]_vars

\* the valid (non-negative) measurements among those made, in order
RECURSIVE Valid(_)
Valid(q) ==
    IF q = <<>> THEN <<>>
    ELSE IF Head(q) >= 0 THEN <<Head(q)>> \o Valid(Tail(q))
         ELSE Valid(Tail(q))

\* m is a median of the values of q: at least half of them are <= m and at
\* least half are >= m, and m is one of them or the mean of two of them
IsMedian(m, q) ==
    /\ 2 * Cardinality({i \in DOMAIN q : q[i] <= m}) >= Len(q)
    /\ 2 * Cardinality({i \in DOMAIN q : q[i] >= m}) >= Len(q)
    /\ \E i, j \in DOMAIN q : 2 * m = q[i] + q[j]

C35_NoAttemptOnceWithdrawn ==
    [][(TickStep /\ ever_enabled /\ ~enable_connection)
          => (~AttemptStep /\ (is_connected' => is_connected))]_vars

\* C36: in every reachable state is_connected and connection_failed are not
\* both true, whatever the ticks, network events and caller writes.
C36_SignalsExclusive == ~(is_connected /\ connection_failed)

\* connection() returns True and the loop takes the online path
ConnectionTrueStep == app.state = "CONNECT" /\ app'.state = "FLUSH_DATA"

\* C37: connection() returns True, and the application goes CONNECT ->
\* FLUSH_DATA, only when the WiFi FSM is in state Connected at that moment.
C37_OnlineOnlyWhenConnected ==
    [][ConnectionTrueStep => state = STATE_CONNECTED]_vars

\* C38: a connection_failed that the FSM set while the application was in
\* CONNECT is not cleared before some connection() call has returned False.
C38_FailureNotMissed ==
    [][(connection_failed /\ ~connection_failed') => ~app.unseen_failure]_vars

\* C39: connect() makes at most `retry` attempts and leaves no client when
\* all fail, publish() never raises, and a publish() that follows a failed
\* publish on an established client opens a fresh broker connection.
C39_PublishRecovers ==
    [][/\ mqtt'.op = "connect" =>
              (/\ mqtt'.attempts <= mqtt'.retry
               /\ ~mqtt'.ret => mqtt'.client = None)
       /\ mqtt'.op = "publish" => ~mqtt'.raised
       /\ (/\ mqtt.client # None
           /\ mqtt.client.failed
           /\ mqtt'.op = "publish") => mqtt'.fresh]_vars

====
